---- MODULE Spec2Model ----
(***************************************************************************)
(* A model of the playback queue (src/src/queue.rs) and of the player's    *)
(* control state machine (src/src/playback.rs) of amuseing.                *)
(*                                                                         *)
(* The specifications share the variables:                                 *)
(*   SpecQueue   a client of Queue<T> calling its methods in any order;    *)
(*   Spec        the Player: the caller thread and the decoder threads;    *)
(*   SpecRewind  the Player under a caller that starts, skips and rewinds; *)
(*   SpecQuit    the Player under a caller that ends playback, with the    *)
(*               decoder thread scheduled fairly;                          *)
(*   SpecUpdates the Player under a caller that reads the update channel;  *)
(*   SpecSeek    the Player under a caller that seeks and skips over songs *)
(*               of different lengths;                                     *)
(*   SpecSink    the audio callback of the stream, the decoder feeding it  *)
(*               and the caller setting and reading the volume, with the   *)
(*               callback scheduled fairly.                                *)
(***************************************************************************)
EXTENDS Integers, Sequences, FiniteSets, TLC

\* ------------------------------------------------------------------ bounds
\* Longest item list the model builds.
MaxLen == 3
\* Largest argument given to jump / skip / rewind.
MaxN == 4
\* Longest run of consecutive next_item() calls that is recorded.
MaxRun == 7

\* Most decoder threads (successful run() calls) in one behaviour.
MaxWorkers == 2
\* Most control messages waiting in a worker's channel.
MaxChan == 1
\* Most updates waiting in the update channel.
MaxUpdates == 2
\* Most stereo frames the device asks for in one call of the audio callback.
MaxFrames == 2
\* Capacity of the ring buffer between the decoder and the callback, in frames.
MaxRing == 2

\* The songs a queue may hold; None is Option::None.
Songs == {"A", "B", "C"}
None == "None"
RepeatModes == {"Off", "Single", "All"}

VARIABLES
    queue,      \* Queue<T>: [items, index, repeat_mode, has_advanced]
    panicked,   \* the client thread of the queue has panicked
    last,       \* history: the last Queue method called, its argument, the queue before it, its result
    prev,       \* history: the jump/skip/rewind call that next_item() immediately followed
    run,        \* history: the current run of consecutive next_item() calls
    state,      \* Player.state: Arc<Mutex<PlayerState>>
    sender,     \* Player.sender: 0 is None, w is Some(sender of worker w's control channel)
    time_playing, \* Player.time_playing, in packet lengths
    workers,    \* the decoder threads spawned by run(), in spawn order
    chan,       \* chan[w]: the control messages sent to worker w and not yet received
    call,       \* history: the step just taken, a Player method and its result or a thread's step
    caller,     \* the caller thread's position: "idle" between calls, or inside Player::rewind
    rewound,    \* history: the item the last Player::rewind moved the queue back to, and whether
                \* a worker has pulled from the queue since
    updates,    \* the PlayerUpdates sent to the Receiver of the last run() and not yet received
    listening,  \* the caller keeps the Receiver run() returns (else it drops it at once)
    audio,      \* the stream create_stream built: the callback's captured state and position,
                \* the ring buffer and the sample rate triple buffer
    volume      \* Player.volume: Arc<AtomicVolume>, the caller's position in set_volume and
                \* history: what the caller last read

qvars == <<queue, panicked, last, prev, run>>
qvars_ghost == <<panicked, last, prev, run>>
uvars == <<updates, listening>>
avars == <<audio, volume>>
pvars == <<state, sender, time_playing, workers, chan, call, caller, rewound, updates, listening,
           audio, volume>>
vars == <<queue, panicked, last, prev, run, state, sender, time_playing, workers, chan, call,
          caller, rewound, updates, listening, audio, volume>>

\* ------------------------------------------------------------------ the volume and the stream: values
\* Percentages given to AtomicVolume::from_percent, in hundredths (100 is 1.0).
PercentInputs == {-50, 0, 50, 100, 150}
Clamp(x, lo, hi) == IF x < lo THEN lo ELSE IF x > hi THEN hi ELSE x
\* 10^(Ar / 20) in ten-thousandths, Ar = -60 + 60 * percent / 100, for the
\* percentage of PercentInputs strictly between 0 and 100.
Curve(percent) == CASE percent = 50 -> 316
\* AtomicVolume::from_percent: the percentage clamped to 0..1 and its multiplier
\* (in ten-thousandths; the percentage itself at 0 and at 1).
from_percent(percent) ==
    LET p == Clamp(percent, 0, 100)
    IN  [percent |-> p, multiplier |-> IF p = 0 \/ p = 100 THEN p * 100 ELSE Curve(p)]
\* Player::new(volume): the cell, no set_volume in progress (`other` is its
\* argument, `was` the percentage before it), nothing read yet.
NewVolume(percent) ==
    [cell |-> from_percent(percent), pc |-> "idle", other |-> from_percent(percent),
     was |-> from_percent(percent).percent, seen |-> from_percent(percent)]

\* CHUNK_SIZE, the resampler's input chunk in frames, scaled down.
ChunkSize == 2
\* Sample rates of songs and devices.
Rates == {"44100", "48000"}
\* Frames FftFixedIn::process_into_buffer returns for one input chunk.
ResampleOut(rate_in) == IF rate_in = "44100" THEN ChunkSize + 1 ELSE ChunkSize - 1
\* stream_setup / create_stream on a device of rate rate_out: the decoder
\* assumes 44.1 kHz at first; nothing in the ring buffer, in samples_in or in
\* sample_deque; the callback not running.
NewStream(rate_out) ==
    [pc |-> "idle", rate_out |-> rate_out,
     written |-> "44100", fresh |-> FALSE,
     rate_in |-> "44100", bypass_resampler |-> rate_out = "44100",
     consumer |-> 0, samples_in |-> 0, sample_deque |-> 0,
     data |-> 0, left |-> 0, equilibrium |-> 0, heard |-> 0]

\* ------------------------------------------------------------------ Queue<T>
Queue_new(repeat_mode) ==
    [items |-> <<>>, index |-> 0, repeat_mode |-> repeat_mode, has_advanced |-> FALSE]

\* Vec::get with a 0-based index.
Get(items, i) == IF i >= 0 /\ i < Len(items) THEN items[i + 1] ELSE None

\* Vec::remove / Vec::insert with a 0-based index.
VecRemove(items, i) == SubSeq(items, 1, i) \o SubSeq(items, i + 2, Len(items))
VecInsert(items, i, x) == SubSeq(items, 1, i) \o <<x>> \o SubSeq(items, i + 1, Len(items))

next_item_no_wrap(q) ==
    IF q.items = <<>> THEN [q |-> q, ret |-> None]
    ELSE LET i1 == IF q.repeat_mode # "Single" /\ q.has_advanced /\ q.index < Len(q.items)
                   THEN q.index + 1 ELSE q.index
             q2 == [q EXCEPT !.index = i1, !.has_advanced = TRUE]
         IN  [q |-> q2, ret |-> Get(q2.items, q2.index)]

next_item_no_clamp(q) ==
    IF q.items = <<>> THEN [q |-> q, ret |-> None]
    ELSE LET i1 == IF q.repeat_mode # "Single" /\ q.has_advanced
                   THEN q.index + 1 ELSE q.index
             i2 == IF q.repeat_mode # "Off" THEN i1 % Len(q.items) ELSE i1
             q2 == [q EXCEPT !.index = i2, !.has_advanced = TRUE]
         IN  [q |-> q2, ret |-> Get(q2.items, q2.index)]

next_item_single_moves(q) ==
    IF q.items = <<>> THEN [q |-> q, ret |-> None]
    ELSE LET i1 == IF q.has_advanced /\ q.index < Len(q.items)
                   THEN q.index + 1 ELSE q.index
             i2 == IF q.repeat_mode # "Off" THEN i1 % Len(q.items) ELSE i1
             q2 == [q EXCEPT !.index = i2, !.has_advanced = TRUE]
         IN  [q |-> q2, ret |-> Get(q2.items, q2.index)]

next_item_empty_marks(q) ==
    IF q.items = <<>> THEN [q |-> [q EXCEPT !.has_advanced = TRUE], ret |-> None]
    ELSE LET i1 == IF q.repeat_mode # "Single" /\ q.has_advanced /\ q.index < Len(q.items)
                   THEN q.index + 1 ELSE q.index
             i2 == IF q.repeat_mode # "Off" THEN i1 % Len(q.items) ELSE i1
             q2 == [q EXCEPT !.index = i2, !.has_advanced = TRUE]
         IN  [q |-> q2, ret |-> Get(q2.items, q2.index)]

\* Queue::next_item: the queue after the call and the item returned.
next_item(q) ==
    IF q.items = <<>> THEN [q |-> q, ret |-> None]
    ELSE LET i1 == IF q.repeat_mode # "Single" /\ q.has_advanced /\ q.index < Len(q.items)
                   THEN q.index + 1 ELSE q.index
             i2 == IF q.repeat_mode # "Off" THEN i1 % Len(q.items) ELSE i1
             q2 == [q EXCEPT !.index = i2, !.has_advanced = TRUE]
         IN  [q |-> q2, ret |-> Get(q2.items, q2.index)]

\* Queue::current
current(q) == Get(q.items, q.index)

\* Queue::push
push(q, item) == [q EXCEPT !.items = Append(q.items, item)]

remove_no_adjust(q, index) == [q EXCEPT !.items = VecRemove(q.items, index)]

remove_adjusts_at_index(q, index) ==
    [q EXCEPT !.items = VecRemove(q.items, index),
              !.index = IF index <= q.index /\ q.index > 0 THEN q.index - 1 ELSE q.index]

\* Queue::remove, for index < len (Vec::remove panics otherwise).
remove(q, index) ==
    [q EXCEPT !.items = VecRemove(q.items, index),
              !.index = IF index < q.index THEN q.index - 1 ELSE q.index]

insert_strict(q, index, item) ==
    [q EXCEPT !.items = VecInsert(q.items, index, item),
              !.index = IF index < q.index THEN q.index + 1 ELSE q.index]

insert_no_adjust(q, index, item) == [q EXCEPT !.items = VecInsert(q.items, index, item)]

\* Queue::insert, for index <= len (Vec::insert panics otherwise).
insert(q, index, item) ==
    [q EXCEPT !.items = VecInsert(q.items, index, item),
              !.index = IF index <= q.index THEN q.index + 1 ELSE q.index]

jump_strict(q, new_index) ==
    IF new_index >= Len(q.items)
    THEN [q |-> q, ok |-> FALSE, value |-> new_index, max |-> Len(q.items)]
    ELSE [q |-> [q EXCEPT !.has_advanced = FALSE, !.index = new_index],
          ok |-> TRUE, value |-> new_index, max |-> Len(q.items)]

jump_keeps_flag(q, new_index) ==
    IF new_index > Len(q.items)
    THEN [q |-> q, ok |-> FALSE, value |-> new_index, max |-> Len(q.items)]
    ELSE [q |-> [q EXCEPT !.index = new_index],
          ok |-> TRUE, value |-> new_index, max |-> Len(q.items)]

\* Queue::jump: Err(OutOfBoundsError::High {value, max}) when new_index > len.
jump(q, new_index) ==
    IF new_index > Len(q.items)
    THEN [q |-> q, ok |-> FALSE, value |-> new_index, max |-> Len(q.items)]
    ELSE [q |-> [q EXCEPT !.has_advanced = FALSE, !.index = new_index],
          ok |-> TRUE, value |-> new_index, max |-> Len(q.items)]

Min(a, b) == IF a <= b THEN a ELSE b
\* a modulo b for an a that may be negative.
Mod(a, b) == a - b * (a \div b)

skip_from_index(q, n0) ==
    LET new_index == IF q.items = <<>> THEN 0
                     ELSE IF q.repeat_mode = "Off" THEN Min(q.index + n0, Len(q.items))
                     ELSE (q.index + n0) % Len(q.items)
        j == jump(q, new_index)
    IN  [q |-> j.q, panic |-> ~j.ok]

skip_unclamped(q, n0) ==
    LET n == IF q.has_advanced THEN n0 + 1 ELSE n0
        new_index == IF q.items = <<>> THEN 0
                     ELSE IF q.repeat_mode = "Off" THEN q.index + n
                     ELSE (q.index + n) % Len(q.items)
        j == jump(q, new_index)
    IN  [q |-> j.q, panic |-> ~j.ok]

\* Queue::skip: the queue after the call; panic when the expect() on jump fails.
skip(q, n0) ==
    LET n == IF q.has_advanced THEN n0 + 1 ELSE n0
        new_index == IF q.items = <<>> THEN 0
                     ELSE IF q.repeat_mode = "Off" THEN Min(q.index + n, Len(q.items))
                     ELSE (q.index + n) % Len(q.items)
        j == jump(q, new_index)
    IN  [q |-> j.q, panic |-> ~j.ok]

rewind_clamped(q, n) ==
    IF q.items = <<>> \/ n > q.index THEN [q |-> jump(q, 0).q, panic |-> FALSE]
    ELSE [q |-> jump(q, q.index - n).q, panic |-> FALSE]

\* Queue::rewind.  `len - (n - index)` is a usize subtraction: when n - index
\* exceeds len it panics with overflow checks on, and wraps to a value above
\* len without them, so that jump returns Err and the expect() panics.
rewind(q, n) ==
    IF q.items = <<>> THEN [q |-> jump(q, 0).q, panic |-> ~jump(q, 0).ok]
    ELSE IF n <= q.index
         THEN [q |-> jump(q, q.index - n).q, panic |-> ~jump(q, q.index - n).ok]
    ELSE IF n - q.index > Len(q.items)
         THEN [q |-> q, panic |-> TRUE]
    ELSE [q |-> jump(q, Len(q.items) - (n - q.index)).q,
          panic |-> ~jump(q, Len(q.items) - (n - q.index)).ok]

\* ------------------------------------------------------------------ history
NoCall == [op |-> "none", n |-> 0, pre |-> Queue_new("Off"), ret |-> "Unit", value |-> 0, max |-> 0]
NoRun == [count |-> 0, index |-> 0, has_advanced |-> FALSE, first |-> None]
\* value and max are the fields of OutOfBoundsError::High, 0 when there is none.
Call(op, n, ret) == [op |-> op, n |-> n, pre |-> queue, ret |-> ret, value |-> 0, max |-> 0]

\* requested and max are the Duration given to seek_duration and the max of
\* SeekError::OutOfRange, 0 when there is none.
NoPlayerCall == [op |-> "none", ret |-> "Unit", requested |-> 0, max |-> 0]
WorkerStep == [op |-> "worker", ret |-> "Unit", requested |-> 0, max |-> 0]
NoRewind == [song |-> None, pulled |-> FALSE]

\* ------------------------------------------------------------------ SpecQueue
InitQueue ==
    /\ \E m \in RepeatModes : queue = Queue_new(m)
    /\ panicked = FALSE
    /\ last = NoCall
    /\ prev = NoCall
    /\ run = NoRun
    /\ state = "NotStarted"
    /\ sender = 0
    /\ time_playing = 0
    /\ workers = <<>>
    /\ chan = <<>>
    /\ call = NoPlayerCall
    /\ caller = "idle"
    /\ rewound = NoRewind
    /\ updates = <<>>
    /\ listening = FALSE
    /\ audio = NewStream("44100")
    /\ volume = NewVolume(100)

QNextItem ==
    /\ ~panicked
    /\ UNCHANGED pvars
    /\ run.count < MaxRun
    /\ LET r == next_item(queue) IN
        /\ queue' = r.q
        /\ last' = Call("next_item", 0, r.ret)
        /\ prev' = IF last.op \in {"jump", "skip", "rewind"} THEN last ELSE NoCall
        /\ run' = IF run.count = 0
                  THEN [count |-> 1, index |-> queue.index,
                        has_advanced |-> queue.has_advanced, first |-> r.ret]
                  ELSE [run EXCEPT !.count = run.count + 1]
    /\ UNCHANGED panicked

QPush ==
    /\ ~panicked
    /\ UNCHANGED pvars
    /\ Len(queue.items) < MaxLen
    /\ \E s \in Songs :
        /\ queue' = push(queue, s)
        /\ last' = Call("push", 0, "Unit")
    /\ prev' = NoCall
    /\ run' = NoRun
    /\ UNCHANGED panicked

QInsert ==
    /\ ~panicked
    /\ UNCHANGED pvars
    /\ Len(queue.items) < MaxLen
    /\ \E s \in Songs, i \in 0..Len(queue.items) :
        /\ queue' = insert(queue, i, s)
        /\ last' = Call("insert", i, "Unit")
    /\ prev' = NoCall
    /\ run' = NoRun
    /\ UNCHANGED panicked

QRemove ==
    /\ ~panicked
    /\ UNCHANGED pvars
    /\ \E i \in 0..(Len(queue.items) - 1) :
        /\ queue' = remove(queue, i)
        /\ last' = Call("remove", i, "Unit")
    /\ prev' = NoCall
    /\ run' = NoRun
    /\ UNCHANGED panicked

QJump ==
    /\ ~panicked
    /\ UNCHANGED pvars
    /\ \E n \in 0..MaxN :
        LET j == jump(queue, n) IN
        /\ queue' = j.q
        /\ last' = IF j.ok THEN Call("jump", n, "Ok")
                   ELSE [Call("jump", n, "High") EXCEPT !.value = j.value, !.max = j.max]
    /\ prev' = NoCall
    /\ run' = NoRun
    /\ UNCHANGED panicked

QSkip ==
    /\ ~panicked
    /\ UNCHANGED pvars
    /\ \E n \in 0..MaxN :
        LET r == skip(queue, n) IN
        /\ queue' = r.q
        /\ panicked' = r.panic
        /\ last' = Call("skip", n, IF r.panic THEN "Panic" ELSE "Unit")
    /\ prev' = NoCall
    /\ run' = NoRun

QRewind ==
    /\ ~panicked
    /\ UNCHANGED pvars
    /\ \E n \in 0..MaxN :
        LET r == rewind(queue, n) IN
        /\ queue' = r.q
        /\ panicked' = r.panic
        /\ last' = Call("rewind", n, IF r.panic THEN "Panic" ELSE "Unit")
    /\ prev' = NoCall
    /\ run' = NoRun

QSetRepeatMode ==
    /\ ~panicked
    /\ UNCHANGED pvars
    /\ \E m \in RepeatModes \ {queue.repeat_mode} :
        /\ queue' = [queue EXCEPT !.repeat_mode = m]
        /\ last' = Call("repeat_mode", 0, "Unit")
    /\ prev' = NoCall
    /\ run' = NoRun
    /\ UNCHANGED panicked

NextQueue ==
    \/ QNextItem
    \/ QPush
    \/ QInsert
    \/ QRemove
    \/ QJump
    \/ QSkip
    \/ QRewind
    \/ QSetRepeatMode

SpecQueue == InitQueue /\ [][NextQueue]_vars

\* ------------------------------------------------------------------ Player
\* The playlist the caller fills the player's queue from, and Song::duration
\* of each song in packet lengths (a song's last packet ends at its duration).
Playlist == <<"A", "B">>
Duration(song) == IF song = "C" THEN 3 ELSE 1
LongestSong == Duration("B")
\* PlayerMessage; Seek carries its Duration.
Messages == {[kind |-> k, d |-> 0] : k \in {"Stop", "Pause", "Resume", "Quit"}}
                \cup {[kind |-> "Seek", d |-> d] : d \in 0..LongestSong}
Msg(kind) == [kind |-> kind, d |-> 0]

run_check_playing_only(st, q) ==
    IF st = "Playing" THEN "Running"
    ELSE IF q.items = <<>> THEN "EmptyQueue"
    ELSE "Ok"

run_check_no_empty(st, q) ==
    IF st \in {"Playing", "Paused"} THEN "Running" ELSE "Ok"

\* The checks at the head of Player::run: the error it returns, or "Ok".
run_check(st, q) ==
    IF st \in {"Playing", "Paused"} THEN "Running"
    ELSE IF q.items = <<>> THEN "EmptyQueue"
    ELSE "Ok"

\* The decoder thread as thread::spawn leaves it: about to set up the stream.
NewWorker ==
    [pc |-> "setup", playing |-> FALSE, song |-> None, pos |-> 0, stream |-> "none", left |-> "none"]
\* A thread that has ended (returned or panicked) keeps nothing.
Ended(pc) ==
    [pc |-> pc, playing |-> FALSE, song |-> None, pos |-> 0, stream |-> "none", left |-> "none"]
\* The thread leaves 'song_loop for `pc`: the reader, the decoder and `playing`
\* go out of scope; `left` keeps how the loop was left until the next pull.
Leave(wk, pc, how) == [wk EXCEPT !.pc = pc, !.left = how, !.pos = 0, !.playing = FALSE]
Alive_ever_started(w) == w \in 1..Len(workers)
Alive(w) == w \in 1..Len(workers) /\ workers[w].pc \notin {"done", "dead"}

WorkerExitState_NotStarted == "NotStarted"
\* The state the decoder thread stores when it leaves 'main_loop.
WorkerExitState == "Finished"

PlayerCall(op, ret) == [op |-> op, ret |-> ret, requested |-> 0, max |-> 0]

\* Some(index).zip(next_song): <<>> is None, <<index, song>> is Some((index, song)).
song_info_before_pull(q, next_song) ==
    IF next_song = None THEN <<>> ELSE <<q.index, next_song>>
song_info(q, next_song) ==
    IF next_song = None THEN <<>> ELSE <<next_item(q).q.index, next_song>>
\* PlayerUpdate
song_change(info) == [kind |-> "SongChange", song_info |-> info]
DeviceDisconnect == [kind |-> "DeviceDisconnect", song_info |-> <<>>]
\* `let _ = player_update_tx.send(u)`: the channel is unbounded, and a send to
\* a dropped Receiver is an error that is ignored.
Emit(u) ==
    /\ listening => Len(updates) < MaxUpdates
    /\ updates' = IF listening THEN Append(updates, u) ELSE updates
    /\ UNCHANGED listening

\* Where the decoder thread goes on when reader.next_packet() is an error
\* (`break 'song_loop`) and when reader.seek() is an IoError (`continue 'main_loop`).
AfterReadError_leaves_main_loop == "exit"
AfterReadError == "pull"
AfterSeekError == "pull"
\* Where it goes on when it takes a Quit (`break 'main_loop`).
AfterQuit_next_song == "pull"
AfterQuit == "exit"
\* The tests guarding the Pause and Resume arms.
ShouldPause_always(st) == TRUE
ShouldPause(st) == st # "Paused"
ShouldResume(st) == st # "Playing"
\* The caller thread is between calls, and stays there.
CallerIdle == caller = "idle" /\ UNCHANGED <<caller, rewound>>

\* Player::new followed by the caller filling the queue through queue_mut()
\* (`*queue = Queue::new(mode); queue.extend(songs)`), as both front ends do
\* before the first run().
Init ==
    /\ \E k \in 0..Len(Playlist), m \in RepeatModes :
          queue = [Queue_new(m) EXCEPT !.items = SubSeq(Playlist, 1, k)]
    /\ state = "NotStarted"
    /\ sender = 0
    /\ time_playing = 0
    /\ workers = <<>>
    /\ chan = <<>>
    /\ call = NoPlayerCall
    /\ caller = "idle"
    /\ rewound = NoRewind
    /\ updates = <<>>
    /\ listening = FALSE
    /\ audio = NewStream("44100")
    /\ volume = NewVolume(100)
    /\ panicked = FALSE
    /\ last = NoCall
    /\ prev = NoCall
    /\ run = NoRun

Run_keeps_state ==
    LET r == run_check(state, queue) IN
    /\ CallerIdle
    /\ r = "Ok" => Len(workers) < MaxWorkers
    /\ IF r = "Ok"
       THEN /\ state' = state
            /\ sender' = Len(workers) + 1
            /\ workers' = Append(workers, NewWorker)
            /\ chan' = Append(chan, <<>>)
            /\ updates' = <<>>
       ELSE UNCHANGED <<state, sender, workers, chan, updates>>
    /\ call' = PlayerCall("run", r)
    /\ UNCHANGED <<queue, time_playing, qvars_ghost, avars, listening>>

\* Player::run
Run ==
    LET r == run_check(state, queue) IN
    /\ CallerIdle
    /\ r = "Ok" => Len(workers) < MaxWorkers
    /\ IF r = "Ok"
       THEN /\ state' = "Paused"
            /\ sender' = Len(workers) + 1
            /\ workers' = Append(workers, NewWorker)
            /\ chan' = Append(chan, <<>>)
            /\ updates' = <<>>
       ELSE UNCHANGED <<state, sender, workers, chan, updates>>
    /\ call' = PlayerCall("run", r)
    /\ UNCHANGED <<queue, time_playing, qvars_ghost, avars, listening>>

\* Player::send_message through quit / stop / pause / resume: false when there
\* is no sender or the receiving thread has ended.
SendMessage(op, m) ==
    /\ IF sender # 0 /\ Alive(sender)
       THEN /\ Len(chan[sender]) < MaxChan
            /\ chan' = [chan EXCEPT ![sender] = Append(@, m)]
            /\ call' = [PlayerCall(op, "true") EXCEPT !.requested = m.d]
       ELSE /\ chan' = chan
            /\ call' = [PlayerCall(op, "false") EXCEPT !.requested = m.d]
    /\ UNCHANGED <<queue, state, sender, time_playing, workers, qvars_ghost, avars, uvars>>

Quit == CallerIdle /\ SendMessage("quit", Msg("Quit"))
Stop == CallerIdle /\ SendMessage("stop", Msg("Stop"))
Pause == CallerIdle /\ SendMessage("pause", Msg("Pause"))
Resume == CallerIdle /\ SendMessage("resume", Msg("Resume"))

seek_check_strict(q, d) ==
    IF current(q) = None THEN "NoCurrentSong"
    ELSE IF d >= Duration(current(q)) THEN "OutOfRange"
    ELSE "Ok"

\* The checks at the head of Player::seek_duration: the error it returns, or "Ok".
seek_check(q, d) ==
    IF current(q) = None THEN "NoCurrentSong"
    ELSE IF d > Duration(current(q)) THEN "OutOfRange"
    ELSE "Ok"

\* Player::seek_duration
SeekDuration ==
    /\ CallerIdle
    /\ \E d \in 0..(LongestSong + 1) :
        CASE seek_check(queue, d) = "NoCurrentSong" ->
                /\ call' = PlayerCall("seek_duration", "NoCurrentSong")
                /\ UNCHANGED <<queue, state, sender, time_playing, workers, chan, qvars_ghost, avars, uvars>>
          [] seek_check(queue, d) = "OutOfRange" ->
                /\ call' = [PlayerCall("seek_duration", "OutOfRange")
                               EXCEPT !.requested = d, !.max = Duration(current(queue))]
                /\ UNCHANGED <<queue, state, sender, time_playing, workers, chan, qvars_ghost, avars, uvars>>
          [] seek_check(queue, d) = "Ok" ->
                SendMessage("seek_duration", [kind |-> "Seek", d |-> d])

\* The caller changing the queue through Player::queue_mut / set_repeat_mode.
RemoveSong ==
    /\ CallerIdle
    /\ \E i \in 0..(Len(queue.items) - 1) : queue' = remove(queue, i)
    /\ call' = PlayerCall("queue_mut", "Unit")
    /\ UNCHANGED <<state, sender, time_playing, workers, chan, qvars_ghost, avars, uvars>>

SetRepeatMode ==
    /\ CallerIdle
    /\ \E m \in RepeatModes \ {queue.repeat_mode} : queue' = [queue EXCEPT !.repeat_mode = m]
    /\ call' = PlayerCall("set_repeat_mode", "Unit")
    /\ UNCHANGED <<state, sender, time_playing, workers, chan, qvars_ghost, avars, uvars>>

\* ---- the decoder thread w
\* stream_setup(..).unwrap() then stream.play(): the thread panics when no
\* device or stream can be had.
WSetup(w) ==
    /\ workers[w].pc = "setup"
    /\ \/ workers' = [workers EXCEPT ![w].pc = "pull", ![w].stream = "playing"]
       \/ workers' = [workers EXCEPT ![w] = Ended("dead")]
    /\ UNCHANGED <<queue, state, sender, time_playing, chan, qvars_ghost, avars, uvars>>
    /\ UNCHANGED <<caller, rewound>>
    /\ call' = WorkerStep

\* Head of 'main_loop: next_item() under the queue lock and, under the same
\* lock, the SongChange update; None ends the loop.
WPull(w) ==
    /\ workers[w].pc = "pull"
    /\ LET r == next_item(queue) IN
        /\ queue' = r.q
        /\ Emit(song_change(song_info(queue, r.ret)))
        /\ workers' = [workers EXCEPT ![w].song = r.ret,
                                      ![w].left = "none",
                                      ![w].pc = IF r.ret = None THEN "exit" ELSE "open"]
    /\ UNCHANGED <<state, sender, time_playing, chan, qvars_ghost, avars>>
    /\ rewound' = IF rewound.song # None /\ ~rewound.pulled
                  THEN [rewound EXCEPT !.pulled = TRUE] ELSE NoRewind
    /\ UNCHANGED caller
    /\ call' = WorkerStep

\* song.reader_decoder().unwrap(), time_playing = 0, state = Playing,
\* playing = true; the thread panics when the file cannot be opened.
WOpen(w) ==
    /\ workers[w].pc = "open"
    /\ \/ /\ workers' = [workers EXCEPT ![w].pc = "top", ![w].playing = TRUE, ![w].pos = 0]
          /\ time_playing' = 0
          /\ state' = "Playing"
       \/ /\ workers' = [workers EXCEPT ![w] = Ended("dead")]
          /\ UNCHANGED <<time_playing, state>>
    /\ UNCHANGED <<queue, sender, chan, qvars_ghost, avars, uvars>>
    /\ UNCHANGED <<caller, rewound>>
    /\ call' = WorkerStep

\* Head of 'song_loop, stream_error_rx.try_recv() is Ok: state = Paused, the
\* stream is built anew (not started, `playing` as it was) and DeviceDisconnect
\* is sent; the thread panics when stream_setup(..).unwrap() fails.
WDeviceError(w) ==
    /\ workers[w].pc = "top"
    /\ state' = "Paused"
    /\ \/ /\ workers' = [workers EXCEPT ![w].pc = "drain", ![w].stream = "built"]
          /\ Emit(DeviceDisconnect)
       \/ /\ workers' = [workers EXCEPT ![w] = Ended("dead")]
          /\ UNCHANGED uvars
    /\ UNCHANGED <<queue, sender, time_playing, chan, qvars_ghost, avars>>
    /\ UNCHANGED <<caller, rewound>>
    /\ call' = WorkerStep

\* One turn of `for message in control_rx.try_iter()`.
WMessage(w) ==
    /\ workers[w].pc \in {"top", "drain"}
    /\ chan[w] # <<>>
    /\ chan' = [chan EXCEPT ![w] = Tail(@)]
    /\ LET m == Head(chan[w]) IN
        CASE m.kind = "Quit" ->
                /\ workers' = [workers EXCEPT ![w] = Leave(@, AfterQuit, "Quit")]
                /\ UNCHANGED <<state, time_playing>>
          [] m.kind = "Stop" ->
                /\ workers' = [workers EXCEPT ![w] = Leave(@, "pull", "Stop")]
                /\ UNCHANGED <<state, time_playing>>
          [] m.kind = "Pause" ->
                /\ IF ShouldPause(state)
                   THEN /\ state' = "Paused"
                        /\ workers' = [workers EXCEPT ![w].pc = "drain", ![w].stream = "paused",
                                                      ![w].playing = FALSE]
                   ELSE /\ state' = state
                        /\ workers' = [workers EXCEPT ![w].pc = "drain"]
                /\ UNCHANGED time_playing
          [] m.kind = "Resume" ->
                /\ IF ShouldResume(state)
                   THEN /\ state' = "Playing"
                        /\ workers' = [workers EXCEPT ![w].pc = "drain", ![w].stream = "playing",
                                                      ![w].playing = TRUE]
                   ELSE /\ state' = state
                        /\ workers' = [workers EXCEPT ![w].pc = "drain"]
                /\ UNCHANGED time_playing
          [] m.kind = "Seek" ->
                \* reader.seek: past the last packet it is an IoError, `continue 'main_loop`
                /\ IF m.d < Duration(workers[w].song)
                   THEN /\ time_playing' = m.d
                        /\ workers' = [workers EXCEPT ![w].pc = "drain", ![w].pos = m.d]
                   ELSE /\ time_playing' = time_playing
                        /\ workers' = [workers EXCEPT ![w] = Leave(@, AfterSeekError, "SeekError")]
                /\ UNCHANGED state
    /\ UNCHANGED <<queue, sender, qvars_ghost, avars, uvars>>
    /\ UNCHANGED <<caller, rewound>>
    /\ call' = WorkerStep

\* try_iter() found the channel empty, and the rest of the 'song_loop body:
\* sleep when not playing, else decode the next packet (time_playing = its
\* timestamp); reader.next_packet() is an error at the end of the song, and
\* may be one before it.
WDecode(w) ==
    /\ workers[w].pc \in {"top", "drain"}
    /\ chan[w] = <<>>
    /\ IF ~workers[w].playing
       THEN /\ workers' = [workers EXCEPT ![w].pc = "top"]
            /\ UNCHANGED time_playing
       ELSE IF workers[w].pos >= Duration(workers[w].song)
       THEN /\ workers' = [workers EXCEPT ![w] = Leave(@, AfterReadError, "End")]
            /\ UNCHANGED time_playing
       ELSE \/ /\ workers' = [workers EXCEPT ![w].pc = "top", ![w].pos = @ + 1]
               /\ time_playing' = workers[w].pos
            \/ /\ workers' = [workers EXCEPT ![w] = Leave(@, AfterReadError, "ReadError")]
               /\ UNCHANGED time_playing
    /\ UNCHANGED <<queue, state, sender, chan, qvars_ghost, avars, uvars>>
    /\ UNCHANGED <<caller, rewound>>
    /\ call' = WorkerStep

WExit_resets_clock(w) ==
    /\ workers[w].pc = "exit"
    /\ state' = WorkerExitState
    /\ time_playing' = 0
    /\ workers' = [workers EXCEPT ![w] = Ended("done")]
    /\ chan' = [chan EXCEPT ![w] = <<>>]
    /\ UNCHANGED <<queue, sender, qvars_ghost, avars, uvars>>
    /\ UNCHANGED <<caller, rewound>>
    /\ call' = WorkerStep

\* After 'main_loop: state = Finished and the thread ends, dropping control_rx;
\* time_playing is left as it is.
WExit(w) ==
    /\ workers[w].pc = "exit"
    /\ state' = WorkerExitState
    /\ workers' = [workers EXCEPT ![w] = Ended("done")]
    /\ chan' = [chan EXCEPT ![w] = <<>>]
    /\ UNCHANGED <<queue, sender, time_playing, qvars_ghost, avars, uvars>>
    /\ UNCHANGED <<caller, rewound>>
    /\ call' = WorkerStep

Next ==
    \/ Run
    \/ Quit
    \/ Stop
    \/ Pause
    \/ Resume
    \/ SeekDuration
    \/ RemoveSong
    \/ SetRepeatMode
    \/ \E w \in 1..Len(workers) : WSetup(w)
    \/ \E w \in 1..Len(workers) : WPull(w)
    \/ \E w \in 1..Len(workers) : WOpen(w)
    \/ \E w \in 1..Len(workers) : WDeviceError(w)
    \/ \E w \in 1..Len(workers) : WMessage(w)
    \/ \E w \in 1..Len(workers) : WDecode(w)
    \/ \E w \in 1..Len(workers) : WExit(w)

Spec == Init /\ [][Next]_vars

\* ------------------------------------------------------------------ ending playback
Drop_sends_nothing ==
    /\ caller = "idle"
    /\ caller' = "dropped"
    /\ call' = PlayerCall("drop", "false")
    /\ UNCHANGED <<queue, state, sender, time_playing, workers, chan, qvars_ghost, avars, uvars, rewound>>

\* Drop for Player in a caller that is between calls: quit().
Drop ==
    /\ caller = "idle"
    /\ SendMessage("drop", Msg("Quit"))
    /\ caller' = "dropped"
    /\ UNCHANGED rewound

\* A step of a decoder thread that is its own doing (a device error is the
\* device's).
Worker ==
    \E w \in 1..Len(workers) :
        \/ WSetup(w)
        \/ WPull(w)
        \/ WOpen(w)
        \/ WMessage(w)
        \/ WDecode(w)
        \/ WExit(w)

NextQuit ==
    \/ Run
    \/ Quit
    \/ Stop
    \/ Pause
    \/ Resume
    \/ Drop
    \/ \E w \in 1..Len(workers) : WSetup(w)
    \/ \E w \in 1..Len(workers) : WPull(w)
    \/ \E w \in 1..Len(workers) : WOpen(w)
    \/ \E w \in 1..Len(workers) : WDeviceError(w)
    \/ \E w \in 1..Len(workers) : WMessage(w)
    \/ \E w \in 1..Len(workers) : WDecode(w)
    \/ \E w \in 1..Len(workers) : WExit(w)

\* The operating system runs a thread that can take a step.
SpecQuit == Init /\ [][NextQuit]_vars /\ WF_vars(Worker)

\* ------------------------------------------------------------------ the update channel
InitUpdates ==
    /\ \E m \in RepeatModes : queue = [Queue_new(m) EXCEPT !.items = Playlist]
    /\ state = "NotStarted"
    /\ sender = 0
    /\ time_playing = 0
    /\ workers = <<>>
    /\ chan = <<>>
    /\ call = NoPlayerCall
    /\ caller = "idle"
    /\ rewound = NoRewind
    /\ updates = <<>>
    /\ listening = TRUE
    /\ audio = NewStream("44100")
    /\ volume = NewVolume(100)
    /\ panicked = FALSE
    /\ last = NoCall
    /\ prev = NoCall
    /\ run = NoRun

\* The front end's `for message in player_update.try_iter()`, one turn.
Recv ==
    /\ CallerIdle
    /\ listening
    /\ updates # <<>>
    /\ updates' = Tail(updates)
    /\ call' = PlayerCall("recv", "Unit")
    /\ UNCHANGED <<queue, state, sender, time_playing, workers, chan, qvars_ghost, avars, listening>>

\* The caller drops the Receiver.
DropReceiver ==
    /\ CallerIdle
    /\ listening
    /\ listening' = FALSE
    /\ updates' = <<>>
    /\ call' = PlayerCall("drop_receiver", "Unit")
    /\ UNCHANGED <<queue, state, sender, time_playing, workers, chan, qvars_ghost, avars>>

NextUpdates ==
    \/ Run
    \/ Quit
    \/ Stop
    \/ Recv
    \/ DropReceiver
    \/ \E w \in 1..Len(workers) : WSetup(w)
    \/ \E w \in 1..Len(workers) : WPull(w)
    \/ \E w \in 1..Len(workers) : WOpen(w)
    \/ \E w \in 1..Len(workers) : WDeviceError(w)
    \/ \E w \in 1..Len(workers) : WMessage(w)
    \/ \E w \in 1..Len(workers) : WDecode(w)
    \/ \E w \in 1..Len(workers) : WExit(w)

SpecUpdates == InitUpdates /\ [][NextUpdates]_vars

\* ------------------------------------------------------------------ Player::rewind
\* Player.rewind_threshold (3 s) in packet lengths: a packet lasts 3 s.
RewindThreshold == 1
\* A playlist whose second song plays past the threshold.
LongPlaylist == <<"A", "C">>

\* The decoder thread the caller's sender leads to is inside 'song_loop on
\* the song at the queue's index.
PlayingCurrent ==
    /\ sender # 0 /\ Alive(sender)
    /\ workers[sender].pc \in {"top", "drain"}
    /\ queue.index < Len(queue.items)
    /\ workers[sender].song = current(queue)

InitRewind ==
    /\ \E m \in RepeatModes : queue = [Queue_new(m) EXCEPT !.items = LongPlaylist]
    /\ state = "NotStarted"
    /\ sender = 0
    /\ time_playing = 0
    /\ workers = <<>>
    /\ chan = <<>>
    /\ call = NoPlayerCall
    /\ caller = "idle"
    /\ rewound = NoRewind
    /\ updates = <<>>
    /\ listening = FALSE
    /\ audio = NewStream("44100")
    /\ volume = NewVolume(100)
    /\ panicked = FALSE
    /\ last = NoCall
    /\ prev = NoCall
    /\ run = NoRun

\* Player::rewind up to its first release of the queue lock: the load of
\* time_playing and the lock that follows it are taken as one step.  Past the
\* threshold with a current song it goes on to seek_duration(0); otherwise it
\* has called queue_mut().rewind(1) and goes on to stop().
Rewind ==
    /\ caller = "idle"
    /\ IF time_playing > RewindThreshold /\ current(queue) # None
       THEN /\ caller' = "rewind_seek"
            /\ UNCHANGED <<queue, rewound>>
       ELSE /\ queue' = rewind(queue, 1).q
            /\ caller' = IF rewind(queue, 1).panic THEN "panicked" ELSE "rewind_stop"
            /\ rewound' = IF PlayingCurrent
                          THEN [song |-> queue.items[Mod(queue.index - 1, Len(queue.items)) + 1],
                                pulled |-> FALSE]
                          ELSE NoRewind
    /\ call' = PlayerCall("rewind", "Unit")
    /\ UNCHANGED <<state, sender, time_playing, workers, chan, qvars_ghost, avars, uvars>>

\* seek_duration(Duration::from_secs(0)).expect(..): the caller panics when
\* the queue has no current song any more.
RewindSeek ==
    /\ caller = "rewind_seek"
    /\ IF seek_check(queue, 0) = "Ok"
       THEN /\ SendMessage("rewind_seek", [kind |-> "Seek", d |-> 0])
            /\ caller' = "idle"
       ELSE /\ caller' = "panicked"
            /\ call' = PlayerCall("rewind_seek", "Panic")
            /\ UNCHANGED <<queue, state, sender, time_playing, workers, chan, qvars_ghost, avars, uvars>>
    /\ UNCHANGED rewound

\* self.stop() at the end of Player::rewind
RewindStop ==
    /\ caller = "rewind_stop"
    /\ SendMessage("rewind_stop", Msg("Stop"))
    /\ caller' = "idle"
    /\ UNCHANGED rewound

\* Player::fast_forward: self.stop()
FastForward == CallerIdle /\ SendMessage("fast_forward", Msg("Stop"))

\* Drop for Player, as the panicking caller unwinds: quit().
PlayerDrop ==
    /\ caller = "panicked"
    /\ SendMessage("drop", Msg("Quit"))
    /\ caller' = "dropped"
    /\ UNCHANGED rewound

NextRewind ==
    \/ Run
    \/ Quit
    \/ Stop
    \/ Pause
    \/ Resume
    \/ SetRepeatMode
    \/ FastForward
    \/ Rewind
    \/ RewindSeek
    \/ RewindStop
    \/ PlayerDrop
    \/ \E w \in 1..Len(workers) : WSetup(w)
    \/ \E w \in 1..Len(workers) : WPull(w)
    \/ \E w \in 1..Len(workers) : WOpen(w)
    \/ \E w \in 1..Len(workers) : WDeviceError(w)
    \/ \E w \in 1..Len(workers) : WMessage(w)
    \/ \E w \in 1..Len(workers) : WDecode(w)
    \/ \E w \in 1..Len(workers) : WExit(w)

SpecRewind == InitRewind /\ [][NextRewind]_vars

\* ------------------------------------------------------------------ claims on the queue
\* The call before the last was jump/skip/rewind `op` and the last was next_item().
Followed(op) == last.op = "next_item" /\ prev.op = op /\ prev.ret # "Panic"
\* The last call was the k-th of a run of next_item() calls begun on a fresh
\* queue (index 0, nothing returned yet).
FreshRun == last.op = "next_item" /\ run.count >= 1 /\ run.index = 0 /\ ~run.has_advanced

\* C4 as stated: jump(n), 0 <= n <= len, then next_item() returns the item at
\* position n, and None when n = len, in every repeat mode.
C4_Original ==
    (Followed("jump") /\ prev.ret = "Ok") =>
        /\ prev.n < Len(queue.items) => last.ret = queue.items[prev.n + 1]
        /\ prev.n = Len(queue.items) => last.ret = None

\* C4 amended: jump(n) then next_item() returns the item at position n when
\* n < len; when n = len it returns None under Off or on the empty queue and
\* the item at position 0 under All and Single; it returns None only when
\* n = len.
C4_JumpThenNext ==
    (Followed("jump") /\ prev.ret = "Ok") =>
        /\ prev.n < Len(queue.items) => last.ret = queue.items[prev.n + 1]
        /\ (prev.n = Len(queue.items) /\ (queue.repeat_mode = "Off" \/ queue.items = <<>>))
              => last.ret = None
        /\ (prev.n = Len(queue.items) /\ queue.repeat_mode # "Off" /\ queue.items # <<>>)
              => last.ret = queue.items[1] /\ queue.index = 0
        /\ last.ret = None => prev.n = Len(queue.items)

C4_Witness ==
    /\ Followed("jump") /\ prev.ret = "Ok"
    /\ prev.pre.has_advanced
    /\ Len(queue.items) = 3
    /\ prev.n = 3
    /\ queue.repeat_mode = "All"
    /\ last.ret = queue.items[1]

\* C5: under All, the k-th consecutive next_item() on a fresh non-empty queue
\* returns the item at position (k-1) mod len, never None.
C5_Wraparound ==
    (FreshRun /\ queue.repeat_mode = "All" /\ queue.items # <<>>) =>
        /\ last.ret = queue.items[((run.count - 1) % Len(queue.items)) + 1]
        /\ last.ret # None

C5_Witness ==
    /\ FreshRun /\ queue.repeat_mode = "All"
    /\ queue.items = <<"A", "B", "C">>
    /\ run.count = 5
    /\ last.ret = "B"

\* C6: under Off, the first len consecutive next_item() calls on a fresh queue
\* return the items in order and every later call returns None; a next_item()
\* called with index = len leaves index = len, and the index never exceeds len.
C6_OffExhausts ==
    /\ (FreshRun /\ queue.repeat_mode = "Off") =>
          /\ run.count <= Len(queue.items) => last.ret = queue.items[run.count]
          /\ run.count > Len(queue.items) => last.ret = None
          /\ queue.index <= Len(queue.items)
    /\ (last.op = "next_item" /\ queue.repeat_mode = "Off"
          /\ last.pre.index = Len(last.pre.items)) => queue.index = Len(queue.items)

C6_Witness ==
    /\ FreshRun /\ queue.repeat_mode = "Off"
    /\ Len(queue.items) = 2
    /\ run.count = 4
    /\ last.pre.index = 2
    /\ queue.index = 2
    /\ last.ret = None

\* C7 as stated: under Off on a non-empty queue, once next_item() has been
\* called len or more times, current() is the item at position len-1.
C7_Original ==
    (FreshRun /\ queue.repeat_mode = "Off" /\ queue.items # <<>>
        /\ run.count >= Len(queue.items)) =>
        current(queue) = queue.items[Len(queue.items)]

\* C8: under Single on a non-empty queue, every next_item() of a run after the
\* first returns what the first returned and leaves the index unchanged.
C8_SingleRepeats ==
    (last.op = "next_item" /\ run.count >= 2 /\ queue.repeat_mode = "Single"
        /\ queue.items # <<>>) =>
        /\ last.ret = run.first
        /\ last.ret # None
        /\ queue.index = last.pre.index

C8_Witness ==
    /\ last.op = "next_item" /\ run.count = 3 /\ queue.repeat_mode = "Single"
    /\ queue.items = <<"A", "B", "C">>
    /\ queue.index = 1
    /\ last.ret = "B"

\* C9 as stated: skip(n) then next_item() returns the item n positions ahead
\* of the item current() denoted at the skip (modulo len under All and Single,
\* None when beyond the end under Off).
C9_Original ==
    (Followed("skip") /\ prev.pre.index < Len(queue.items)) =>
        IF queue.repeat_mode = "Off"
        THEN last.ret = Get(queue.items, Min(prev.pre.index + prev.n, Len(queue.items)))
        ELSE last.ret = queue.items[((prev.pre.index + prev.n) % Len(queue.items)) + 1]

\* C9 amended: skip(n) then next_item() returns the item at position index+n
\* when has_advanced was false at the skip and index+n+1 when it was true
\* (modulo len under All and Single; None when that is len or more under Off):
\* on [A, B] under All, after next_item() returned B, skip(1) then next_item()
\* returns B.
C9_SkipThenNext ==
    Followed("skip") =>
        LET t == prev.pre.index + prev.n + (IF prev.pre.has_advanced THEN 1 ELSE 0)
            len == Len(queue.items)
        IN  IF len = 0 THEN last.ret = None
            ELSE IF queue.repeat_mode = "Off"
                 THEN last.ret = Get(queue.items, Min(t, len)) /\ queue.index = Min(t, len)
                 ELSE last.ret = queue.items[(t % len) + 1] /\ queue.index = t % len

C9_Witness ==
    /\ Followed("skip")
    /\ queue.items = <<"A", "B">>
    /\ queue.repeat_mode = "All"
    /\ prev.pre.has_advanced /\ prev.pre.index = 1 /\ prev.n = 1
    /\ last.ret = "B"

\* C10 as stated: on a non-empty queue with index i, rewind(n) succeeds for
\* every n >= 0 and the next_item() after it returns the item at position
\* (i - n) mod len.
C10_Original ==
    /\ (last.op = "rewind" /\ last.pre.items # <<>>) => last.ret # "Panic"
    /\ (Followed("rewind") /\ queue.items # <<>>) =>
          last.ret = queue.items[Mod(prev.pre.index - prev.n, Len(queue.items)) + 1]

\* C11: jump(n) with n > len returns OutOfBoundsError::High {value: n, max: len}
\* and leaves the queue (index, has_advanced, items) as it was; jump(n) with
\* n <= len returns Ok and sets index = n and has_advanced = false, leaving the
\* items and the repeat mode.
C11_JumpBounds ==
    last.op = "jump" =>
        IF last.n > Len(last.pre.items)
        THEN /\ last.ret = "High"
             /\ last.value = last.n
             /\ last.max = Len(last.pre.items)
             /\ queue = last.pre
        ELSE /\ last.ret = "Ok"
             /\ queue = [last.pre EXCEPT !.index = last.n, !.has_advanced = FALSE]

C11_Witness ==
    /\ last.op = "jump"
    /\ Len(last.pre.items) = 3
    /\ last.pre.has_advanced /\ last.pre.index = 1
    /\ last.n = 4
    /\ last.ret = "High" /\ last.value = 4 /\ last.max = 3
    /\ queue.has_advanced /\ queue.index = 1

\* C12: after any sequence of push, insert(i) with i <= len, remove(i) with
\* i < len, jump, skip, rewind, next_item and repeat-mode changes, the index
\* satisfies 0 <= index <= len.
C12_IndexInRange == queue.index >= 0 /\ queue.index <= Len(queue.items)

\* remove(i) below an index that stood at len brought the index down with len.
C12_Witness ==
    /\ last.op = "remove"
    /\ last.pre.index = Len(last.pre.items)
    /\ last.n < last.pre.index
    /\ queue.items # <<>>
    /\ queue.index = Len(queue.items)

\* A non-empty queue whose index is len.
AtEnd(q) == q.items # <<>> /\ q.index = Len(q.items)
\* The last call brought the queue to AtEnd.
ReachedEnd(op) == last.op = op /\ last.ret # "Panic" /\ AtEnd(queue) /\ ~AtEnd(last.pre)

\* C13 as stated: only next_item() under Off brings a non-empty queue to
\* index = len; jump, skip, rewind, insert, remove and push never do.
C13_Original ==
    /\ ReachedEnd("next_item") => queue.repeat_mode = "Off"
    /\ \A op \in {"jump", "skip", "rewind", "insert", "remove", "push"} : ~ReachedEnd(op)

\* C13 amended: a non-empty queue comes to index = len by next_item() under
\* Off running off the end, by jump(len), by skip under Off clamping to len,
\* by insert into an empty queue and by remove(i) at or after an index that
\* stood at len-1; rewind, push and repeat-mode changes never bring it there,
\* and insert brings it there exactly when the index stood at len.
C13_IndexAtEnd ==
    /\ ReachedEnd("next_item") =>
          queue.repeat_mode = "Off" /\ last.pre.index = Len(queue.items) - 1 /\ last.ret = None
    /\ ReachedEnd("jump") => last.n = Len(queue.items)
    /\ ReachedEnd("skip") =>
          /\ queue.repeat_mode = "Off"
          /\ last.pre.index + last.n + (IF last.pre.has_advanced THEN 1 ELSE 0) >= Len(queue.items)
    /\ ReachedEnd("remove") =>
          last.n >= last.pre.index /\ last.pre.index = Len(last.pre.items) - 1
    /\ last.op = "insert" => (AtEnd(queue) <=> last.pre.index = Len(last.pre.items))
    /\ ReachedEnd("insert") => last.pre.items = <<>>
    /\ \A op \in {"rewind", "push", "repeat_mode"} : ~ReachedEnd(op)

\* The item being played is removed from the tail of the queue.
C13_Witness ==
    /\ ReachedEnd("remove")
    /\ last.pre.items = <<"A", "B">>
    /\ last.pre.index = 1 /\ last.pre.has_advanced
    /\ last.n = 1
    /\ queue.repeat_mode = "All"

\* C14 as stated: insert(i, x) adds 1 to the index and remove(i) takes 1 from
\* it whenever i <= index, both leave it when i > index, and current() is the
\* same item before and after.
C14_Original ==
    /\ last.op = "insert" =>
          /\ queue.index = last.pre.index + (IF last.n <= last.pre.index THEN 1 ELSE 0)
          /\ current(queue) = current(last.pre)
    /\ last.op = "remove" =>
          /\ queue.index = last.pre.index - (IF last.n <= last.pre.index THEN 1 ELSE 0)
          /\ current(queue) = current(last.pre)

\* C14 amended: insert(i, x) adds 1 to the index whenever i <= index and
\* remove(i) takes 1 from it only when i < index; otherwise the index is left.
\* current() is the same item before and after, except after remove(index),
\* which leaves the index on the item that followed the removed one (None at
\* the tail).
C14_IndexFollowsItem ==
    /\ last.op = "insert" =>
          /\ queue.index = last.pre.index + (IF last.n <= last.pre.index THEN 1 ELSE 0)
          /\ current(queue) = current(last.pre)
    /\ last.op = "remove" =>
          /\ queue.index = last.pre.index - (IF last.n < last.pre.index THEN 1 ELSE 0)
          /\ last.n # last.pre.index => current(queue) = current(last.pre)
          /\ last.n = last.pre.index =>
                current(queue) = Get(last.pre.items, last.pre.index + 1)

C14_Witness ==
    /\ last.op = "remove"
    /\ last.pre.items = <<"A", "B", "C">>
    /\ last.pre.index = 1 /\ last.pre.has_advanced
    /\ last.n = 1
    /\ queue.index = 1
    /\ current(queue) = "C"

\* What a client sees of queue q by pushing and advancing: the item returned
\* after one push and the items returned after two.
Observed(q) ==
    <<next_item(push(q, "A")).ret,
      next_item(push(push(q, "A"), "B")).ret,
      next_item(next_item(push(push(q, "A"), "B")).q).ret>>
\* The last call was a navigation operation on an empty queue.
OnEmpty(op) == last.op = op /\ last.pre.items = <<>>

\* C15 as stated: on an empty queue next_item() returns None, jump(0) returns
\* Ok, skip(n) and rewind(n) do not fail, the index stays 0 and later
\* push / next_item calls give what they would have given without the call.
C15_Original ==
    /\ OnEmpty("next_item") => last.ret = None
    /\ (OnEmpty("jump") /\ last.n = 0) => last.ret = "Ok"
    /\ (OnEmpty("skip") \/ OnEmpty("rewind")) => last.ret # "Panic"
    /\ (OnEmpty("next_item") \/ (OnEmpty("jump") /\ last.n = 0)
            \/ OnEmpty("skip") \/ OnEmpty("rewind")) =>
          /\ queue.index = 0
          /\ Observed(queue) = Observed(last.pre)

\* C15 amended: on an empty queue next_item() returns None and changes
\* nothing; jump(0) returns Ok and skip(n) and rewind(n) do not fail, leaving
\* the items empty, the index 0 and the repeat mode, and setting has_advanced
\* to false: they change nothing when has_advanced was false, and when it was
\* true (the queue was emptied by remove after an advance) the push /
\* next_item calls that follow can return different items.
C15_EmptyNavigation ==
    /\ OnEmpty("next_item") => last.ret = None /\ queue = last.pre
    /\ (OnEmpty("jump") /\ last.n = 0) => last.ret = "Ok"
    /\ (OnEmpty("skip") \/ OnEmpty("rewind")) => last.ret # "Panic"
    /\ ((OnEmpty("jump") /\ last.n = 0) \/ OnEmpty("skip") \/ OnEmpty("rewind")) =>
          /\ queue = [last.pre EXCEPT !.has_advanced = FALSE]
          /\ queue.index = 0
          /\ ~last.pre.has_advanced => Observed(queue) = Observed(last.pre)

C15_Witness ==
    /\ OnEmpty("skip")
    /\ last.n = 2
    /\ last.pre.has_advanced
    /\ last.pre.repeat_mode = "Off"
    /\ ~queue.has_advanced
    /\ Observed(last.pre) = <<None, "B", None>>
    /\ Observed(queue) = <<"A", "A", "B">>

\* ------------------------------------------------------------------ claims on the player
\* The step is a call of Player::run.
RunCalled == call'.op = "run"
\* In this step worker w takes message `kind` from its channel.
Receives(w, kind) ==
    /\ workers[w].pc \in {"top", "drain"}
    /\ chan[w] # <<>>
    /\ Head(chan[w]).kind = kind
    /\ chan'[w] = Tail(chan[w])

\* C1: run() while the state is Playing or Paused returns Running, spawns no
\* worker and leaves state, queue, sender and the channels as they were.
C1_RunWhileActive ==
    [][(RunCalled /\ state \in {"Playing", "Paused"}) =>
          /\ call'.ret = "Running"
          /\ workers' = workers
          /\ UNCHANGED <<state, queue, sender, chan, time_playing>>]_vars

\* A second run() right after a successful one: the first worker has not moved.
C1_Witness ==
    /\ call = PlayerCall("run", "Running")
    /\ state = "Paused"
    /\ Len(workers) = 1
    /\ workers[1].pc = "setup"
    /\ sender = 1

\* C2: run() in state NotStarted or Finished returns EmptyQueue on an empty
\* queue, spawning nothing and leaving the state; on a non-empty queue it
\* returns Ok with the state set to Paused and one more worker.
C2_RunStarts ==
    [][(RunCalled /\ state \in {"NotStarted", "Finished"}) =>
          IF queue.items = <<>>
          THEN /\ call'.ret = "EmptyQueue"
               /\ workers' = workers
               /\ UNCHANGED <<state, queue, sender, chan>>
          ELSE /\ call'.ret = "Ok"
               /\ state' = "Paused"
               /\ Len(workers') = Len(workers) + 1
               /\ sender' = Len(workers')]_vars

C2_Witness ==
    /\ call = PlayerCall("run", "EmptyQueue")
    /\ state = "Finished"
    /\ queue.items = <<>>
    /\ Len(workers) = 1
    /\ workers[1].pc = "done"

\* C3: the state changes only NotStarted->Paused and Finished->Paused (by a
\* successful run), Paused->Playing (track start or Resume), Playing->Paused
\* (Pause or device error), Playing/Paused->Finished (the worker leaving its
\* loop).
C3_StatusEdges ==
    [][state' # state =>
          \/ /\ state \in {"NotStarted", "Finished"}
             /\ state' = "Paused"
             /\ call' = PlayerCall("run", "Ok")
          \/ /\ state = "Paused"
             /\ state' = "Playing"
             /\ \E w \in 1..Len(workers) :
                   \/ workers[w].pc = "open" /\ workers'[w].pc = "top"
                   \/ Receives(w, "Resume")
          \/ /\ state = "Playing"
             /\ state' = "Paused"
             /\ \E w \in 1..Len(workers) :
                   \/ Receives(w, "Pause")
                   \/ /\ workers[w].pc = "top" /\ chan' = chan
                      /\ workers'[w].stream = "built" \/ workers'[w].pc = "dead"
          \/ /\ state \in {"Playing", "Paused"}
             /\ state' = "Finished"
             /\ \E w \in 1..Len(workers) :
                   workers[w].pc = "exit" /\ workers'[w].pc = "done"]_vars

\* Finished was left by a second successful run().
C3_Witness ==
    /\ state = "Playing"
    /\ Len(workers) = 2
    /\ workers[1].pc = "done"
    /\ workers[2].pc = "top"

\* C16 as stated: in every state in which next_item() has returned an item,
\* current() (what Player::current reports as the playing song) is the item it
\* most recently returned: the song a decoder thread holds from its last pull.
C16_Original ==
    \A w \in 1..Len(workers) :
        workers[w].pc \in {"open", "top", "drain"} => current(queue) = workers[w].song

\* The step is a call of Player::seek_duration.
SeekCalled == call'.op = "seek_duration"
\* In this step message m is sent to the worker behind the sender, if one lives.
Sent(m) ==
    IF sender # 0 /\ Alive(sender)
    THEN chan' = [chan EXCEPT ![sender] = Append(@, m)]
    ELSE chan' = chan

\* C17: seek_duration(d) on a queue with a current song returns
\* SeekError::OutOfRange {requested: d, max: the song's duration} exactly when
\* d > duration, sending nothing; with d <= duration (d = duration included)
\* it sends Seek(d) to the worker, returning true, or false when no worker
\* lives; it changes nothing else.
C17_SeekOutOfRange ==
    [][(SeekCalled /\ current(queue) # None) =>
          /\ call'.ret = "OutOfRange" =>
                /\ call'.requested > Duration(current(queue))
                /\ call'.max = Duration(current(queue))
                /\ chan' = chan
          /\ call'.ret # "OutOfRange" =>
                /\ call'.requested <= Duration(current(queue))
                /\ call'.ret = (IF sender # 0 /\ Alive(sender) THEN "true" ELSE "false")
                /\ Sent([kind |-> "Seek", d |-> call'.requested])
          /\ UNCHANGED <<queue, state, sender, time_playing, workers>>]_vars

C17_Witness ==
    /\ call = [PlayerCall("seek_duration", "OutOfRange") EXCEPT !.requested = 2, !.max = 1]
    /\ state = "Playing"
    /\ sender = 1 /\ Alive(1)
    /\ workers[1].song = current(queue)
    /\ chan[1] = <<>>

\* C18 as stated: seek_duration returns SeekError::NoCurrentSong whenever the
\* state is NotStarted or Finished or the queue has no current item.
C18_Original ==
    (call.op = "seek_duration"
        /\ (state \in {"NotStarted", "Finished"} \/ current(queue) = None)) =>
        call.ret = "NoCurrentSong"

\* C19 as stated: Player::rewind with time_playing above the threshold and a
\* current song sends Seek(0) and leaves the queue; otherwise it moves the
\* queue index back by one (to the tail from 0), sends Stop and sends no Seek.
C19_Original ==
    [][/\ (caller = "idle" /\ call'.op = "rewind") =>
             IF time_playing > RewindThreshold /\ current(queue) # None
             THEN caller' = "rewind_seek" /\ queue' = queue /\ chan' = chan
             ELSE /\ caller' = "rewind_stop"
                  /\ queue'.items = queue.items
                  /\ queue'.index = IF queue.items = <<>> THEN 0
                                    ELSE Mod(queue.index - 1, Len(queue.items))
                  /\ chan' = chan
       /\ (caller = "rewind_seek" /\ caller' # caller) =>
             /\ caller' = "idle"
             /\ queue' = queue
             /\ Sent([kind |-> "Seek", d |-> 0])
       /\ (caller = "rewind_stop" /\ caller' # caller) =>
             /\ caller' = "idle"
             /\ queue' = queue
             /\ Sent(Msg("Stop"))]_vars

\* C20: after Player::rewind has moved the queue back (below the threshold)
\* while the decoder thread was playing the song at the queue's index i, the
\* song the thread pulls next is the one at position i-1, the tail when i = 0,
\* whatever the caller's later stop / pause / resume / quit / run /
\* set_repeat_mode calls and the thread's steps in between.
C20_RewindRestartsPrevious ==
    \A w \in 1..Len(workers) :
        (rewound.pulled /\ workers[w].pc \in {"open", "exit"}) =>
            workers[w].song = rewound.song

\* Rewound from C, the last song, under Off: the thread goes on with A.
C20_Witness ==
    /\ rewound = [song |-> "A", pulled |-> TRUE]
    /\ queue.repeat_mode = "Off"
    /\ queue.index = 0
    /\ Len(workers) = 1
    /\ workers[1].pc = "open"
    /\ workers[1].song = "A"

\* ------------------------------------------------------------------ claims on the worker loop
FastForwardCalled == call'.op = "fast_forward"
\* In this step worker w pulls from the queue, having left its song by `how`.
Pulls(w, how) ==
    /\ workers[w].pc = "pull"
    /\ workers[w].left = how
    /\ workers'[w].pc # "pull"
\* The track after the current one in queue order: past the tail it is the
\* head under a repeating mode and nothing under Off.
TrackAfter(q) ==
    IF q.index + 1 < Len(q.items) THEN q.items[q.index + 2]
    ELSE IF q.repeat_mode = "Off" THEN None
    ELSE q.items[1]

\* C21 as stated: fast_forward() sends exactly one Stop (to a live worker) and
\* leaves the queue alone; the worker that takes a Stop while playing the
\* queue's current track goes on with the track after it, in every repeat mode.
C21_Original ==
    [][/\ FastForwardCalled =>
             /\ Sent(Msg("Stop"))
             /\ UNCHANGED <<queue, state, sender, time_playing, workers>>
       /\ \A w \in 1..Len(workers) :
             (Pulls(w, "Stop") /\ queue.has_advanced /\ workers[w].song = current(queue))
                => workers'[w].song = TrackAfter(queue)]_vars

ControlCalled == call'.op \in {"pause", "resume", "stop", "quit"}
\* The PlayerMessage each control call sends.
MessageOf(op) ==
    CASE op = "pause" -> Msg("Pause")
      [] op = "resume" -> Msg("Resume")
      [] op = "stop" -> Msg("Stop")
      [] op = "quit" -> Msg("Quit")

\* C22: pause(), resume(), stop() and quit() change neither the state, the
\* queue, the clock nor a worker at call time; they return false, sending
\* nothing, when no worker was ever started or the worker behind the sender
\* has ended, and otherwise return true with exactly their one message
\* appended to that worker's channel.
C22_ControlCalls ==
    [][ControlCalled =>
          LET live == sender # 0 /\ workers[sender].pc \notin {"done", "dead"} IN
          /\ UNCHANGED <<state, queue, time_playing, workers, sender>>
          /\ call'.ret = (IF live THEN "true" ELSE "false")
          /\ chan' = IF live THEN [chan EXCEPT ![sender] = Append(@, MessageOf(call'.op))]
                             ELSE chan]_vars

\* pause() after the worker has run off the queue and finished: false.
C22_Witness ==
    /\ call.op = "pause" /\ call.ret = "false"
    /\ sender = 1
    /\ workers[1].pc = "done"
    /\ state = "Finished"
    /\ chan[1] = <<>>

\* C23: in the worker a Pause taken while the state is Paused and a Resume
\* taken while it is Playing change neither the state, the stream's run state
\* nor the `playing` flag; a Pause taken while Playing sets Paused, pauses the
\* stream and clears the flag; a Resume taken while Paused sets Playing, starts
\* the stream and sets the flag.
C23_PauseResume ==
    [][\A w \in 1..Len(workers) :
          /\ Receives(w, "Pause") =>
                /\ state \in {"Playing", "Paused"}
                /\ IF state = "Paused"
                   THEN /\ state' = state
                        /\ workers'[w].stream = workers[w].stream
                        /\ workers'[w].playing = workers[w].playing
                   ELSE /\ state' = "Paused"
                        /\ workers'[w].stream = "paused"
                        /\ workers'[w].playing = FALSE
          /\ Receives(w, "Resume") =>
                /\ state \in {"Playing", "Paused"}
                /\ IF state = "Playing"
                   THEN /\ state' = state
                        /\ workers'[w].stream = workers[w].stream
                        /\ workers'[w].playing = workers[w].playing
                   ELSE /\ state' = "Playing"
                        /\ workers'[w].stream = "playing"
                        /\ workers'[w].playing = TRUE]_vars

\* A Pause has just been taken while Playing.
C23_Witness ==
    /\ call = WorkerStep
    /\ state = "Paused"
    /\ Len(workers) = 1
    /\ workers[1].pc = "drain"
    /\ workers[1].stream = "paused"
    /\ ~workers[1].playing
    /\ chan[1] = <<>>

\* A Quit sent to the live worker w waits in its channel.
QuitPending(w) ==
    /\ Alive(w)
    /\ \E i \in 1..Len(chan[w]) : chan[w][i].kind = "Quit"
\* Worker w has left 'main_loop, stored Finished and returned.
Finishes(w) == w \in 1..Len(workers) /\ workers[w].pc = "done" /\ state = "Finished"
\* Worker w has panicked.
Panicked(w) == w \in 1..Len(workers) /\ workers[w].pc = "dead"
\* Once worker w has taken a Quit it only stores Finished and returns: it
\* decodes nothing, moves no clock and pulls nothing.
QuitIsFinal ==
    [][\A w \in 1..Len(workers) :
          /\ Receives(w, "Quit") => workers'[w].pc = "exit"
          /\ workers[w].pc = "exit" =>
                /\ workers'[w].pc \in {"exit", "done"}
                /\ UNCHANGED <<time_playing, queue>>]_vars

DroppedOn(w) == caller = "dropped" /\ sender = w /\ Alive(w)

StartsTrack(w) == workers[w].pc = "open" /\ workers'[w].pc = "top"
StoresFinished(w) == workers[w].pc = "exit" /\ workers'[w].pc = "done"

RebuildsStream(w) == workers[w].pc = "top" /\ workers'[w].stream = "built" /\ chan' = chan
\* In this step worker w decodes a packet.
Decodes(w) ==
    /\ workers[w].pc \in {"top", "drain"}
    /\ chan[w] = <<>>
    /\ workers'[w].pos = workers[w].pos + 1

\* C28 as stated: a device error stores Paused, rebuilds the stream, sends
\* one DeviceDisconnect and keeps the worker on its track; while the rebuilt
\* stream has not been started by a Resume and the state is still Paused the
\* worker decodes no packet.
C28_Original ==
    [][\A w \in 1..Len(workers) :
          /\ RebuildsStream(w) =>
                /\ state' = "Paused"
                /\ workers'[w].song = workers[w].song
                /\ workers'[w].pc = "drain"
                /\ updates' = IF listening THEN Append(updates, DeviceDisconnect) ELSE updates
          /\ (workers[w].stream = "built" /\ state = "Paused") => ~Decodes(w)]_vars

\* C29 as stated: no failure to build the stream or to open a song ends the
\* decoder thread, and the state is Playing or Paused only while the worker
\* behind the sender lives.
C29_Original ==
    /\ \A w \in 1..Len(workers) : ~Panicked(w)
    /\ state \in {"Playing", "Paused"} => sender # 0 /\ Alive(sender)

\* In this step worker w leaves its song on a read error (the end of the song
\* included) or on a seek error.
FailsToRead(w) ==
    /\ workers[w].pc \in {"top", "drain"}
    /\ workers'[w].left \in {"End", "ReadError", "SeekError"}

\* C30: an error of reader.next_packet() and an IoError of reader.seek() both
\* send the worker, alive, to the head of 'main_loop with the state and the
\* queue as they were; the pull that follows starts the track the queue
\* yields and leaves the loop only when it yields none; the state becomes
\* Finished only in the step that ends a worker which has left the loop.
C30_ReadErrorsEndTrack ==
    [][/\ \A w \in 1..Len(workers) :
            /\ FailsToRead(w) =>
                  /\ workers'[w].pc = "pull"
                  /\ UNCHANGED <<state, queue, time_playing>>
            /\ \A how \in {"End", "ReadError", "SeekError"} :
                  Pulls(w, how) =>
                      /\ workers'[w].song = next_item(queue).ret
                      /\ workers'[w].pc = IF next_item(queue).ret = None THEN "exit" ELSE "open"
                      /\ state' = state
       /\ (state' = "Finished" /\ state # "Finished") =>
             \E w \in 1..Len(workers) : StoresFinished(w)]_vars

\* A Seek to the very end of A has failed while B waits in the queue.
C30_Witness ==
    /\ state = "Playing"
    /\ Len(workers) = 1
    /\ workers[1].pc = "pull"
    /\ workers[1].left = "SeekError"
    /\ workers[1].song = "A"
    /\ next_item(queue).ret = "B"

\* ------------------------------------------------------------------ more claims on the queue
\* k consecutive next_item() calls: the queue after them and the last item
\* returned (None for k = 0).
RECURSIVE NextItems(_, _)
NextItems(q, k) ==
    IF k = 0 THEN [q |-> q, ret |-> None]
    ELSE IF k = 1 THEN next_item(q)
    ELSE NextItems(next_item(q).q, k - 1)

\* C35 as stated: under Off and All, from any queue state, skip(n) followed by
\* next_item() returns the item and leaves the index that n+1 consecutive
\* next_item() calls from that state return and leave.
C35_Original ==
    (Followed("skip") /\ queue.repeat_mode \in {"Off", "All"}) =>
        /\ last.ret = NextItems(prev.pre, prev.n + 1).ret
        /\ queue.index = NextItems(prev.pre, prev.n + 1).q.index

\* The position skip aims at before clamping or wrapping.
SkipTarget(c) == c.pre.index + c.n + (IF c.pre.has_advanced THEN 1 ELSE 0)

\* C36: skip(n) never panics (its jump never returns Err) and leaves
\* index <= len; under Off a target at or beyond len sets the index to len
\* and the next_item() after it returns None with the index still len; under
\* All and Single on a non-empty queue the index is the target modulo len and
\* the next_item() after it returns an item; on the empty queue the index is 0
\* and next_item() returns None.
C36_SkipInRange ==
    /\ last.op = "skip" =>
          /\ last.ret # "Panic" /\ ~panicked
          /\ queue.index <= Len(queue.items)
          /\ ~queue.has_advanced
          /\ (queue.repeat_mode = "Off" /\ SkipTarget(last) >= Len(queue.items))
                => queue.index = Len(queue.items)
          /\ (queue.repeat_mode # "Off" /\ queue.items # <<>>)
                => queue.index = SkipTarget(last) % Len(queue.items)
          /\ queue.items = <<>> => queue.index = 0
    /\ Followed("skip") =>
          /\ (queue.repeat_mode = "Off" /\ SkipTarget(prev) >= Len(queue.items))
                => last.ret = None /\ queue.index = Len(queue.items)
          /\ (queue.repeat_mode # "Off" /\ queue.items # <<>>)
                => last.ret # None /\ queue.index < Len(queue.items)
          /\ queue.items = <<>> => last.ret = None

\* skip(0) with the last of two items just returned, under Off.
C36_Witness ==
    /\ Followed("skip")
    /\ queue.repeat_mode = "Off"
    /\ Len(queue.items) = 2
    /\ prev.pre.has_advanced /\ prev.pre.index = 1 /\ prev.n = 0
    /\ queue.index = 2
    /\ last.ret = None

\* C37: remove(i) with i < len deletes exactly the item at position i and
\* keeps the others in order; the index goes down by one iff i < index and is
\* unchanged otherwise; when i < index, current() is the same before and after.
C37_RemoveKeepsCurrent ==
    last.op = "remove" =>
        LET old == last.pre
            i   == last.n
        IN  /\ i < Len(old.items)
            /\ queue.items = SubSeq(old.items, 1, i) \o SubSeq(old.items, i + 2, Len(old.items))
            /\ (queue.index = old.index - 1) <=> (i < old.index)
            /\ ~(i < old.index) => queue.index = old.index
            /\ i < old.index => current(queue) = current(old)
            /\ queue.has_advanced = old.has_advanced
            /\ queue.repeat_mode = old.repeat_mode

\* An item before the current one is removed while the index is on an item.
C37_Witness ==
    /\ last.op = "remove"
    /\ last.n < last.pre.index
    /\ last.pre.index < Len(last.pre.items)
    /\ queue.index = last.pre.index - 1
    /\ current(queue) = current(last.pre)
    /\ current(queue) # None

\* C38 as stated: rewind(n) never fails: for every queue and every n >= 0,
\* also n > index + len, the index arithmetic does not underflow and the
\* expect() on the internal jump does not fire.
C38_Original == last.op = "rewind" => (last.ret = "Unit" /\ ~panicked)

\* A queue as next_item() leaves it when it returns None: one more call
\* returns None again and changes nothing.
Exhausted(q) == next_item(q).ret = None /\ next_item(q).q = q

\* C39 as stated: under Off, when items are appended to a queue on which
\* next_item() has returned None, the next next_item() returns the first
\* appended item.
C39_Original ==
    [][(/\ last.op = "push"
        /\ last.pre.repeat_mode = "Off"
        /\ Exhausted(last.pre)
        /\ last'.op = "next_item")
       => last'.ret = queue.items[Len(queue.items)]]_vars

\* ------------------------------------------------------------------ more claims on the player
\* Worker w is inside 'song_loop.
InSongLoop(w) == workers[w].pc \in {"top", "drain"}

\* C33 as stated: whenever the worker behind the sender is in its song loop,
\* state Playing goes with a running stream and a decoding worker, and state
\* Paused with a paused stream and a worker that does not decode.
C33_Original ==
    \A w \in 1..Len(workers) :
        (w = sender /\ InSongLoop(w)) =>
            /\ state = "Playing" => (workers[w].stream = "playing" /\ workers[w].playing)
            /\ state = "Paused" => (workers[w].stream = "paused" /\ ~workers[w].playing)

\* Worker w is inside 'main_loop.
InMainLoop(w) == workers[w].pc \in {"pull", "open", "top", "drain"}

\* C40: at most one decoder thread has not ended, so at most one is inside
\* its main loop; it is the one behind the sender, and while it lives the
\* state is Playing or Paused, which makes run() refuse.
C40_OneWorker ==
    /\ \A v, w \in 1..Len(workers) : (Alive(v) /\ Alive(w)) => v = w
    /\ \A v, w \in 1..Len(workers) : (InMainLoop(v) /\ InMainLoop(w)) => v = w
    /\ \A w \in 1..Len(workers) :
          Alive(w) => (w = sender /\ state \in {"Playing", "Paused"})

\* A second thread decodes after the first has returned.
C40_Witness ==
    /\ Len(workers) = 2
    /\ workers[1].pc = "done"
    /\ workers[2].pc = "top"
    /\ workers[2].pos > 0

\* ------------------------------------------------------------------ seeking across track changes
\* seek_duration(), stop() and fast_forward() against a playlist whose songs
\* differ in length.
NextSeek ==
    \/ Run
    \/ Stop
    \/ FastForward
    \/ SeekDuration
    \/ \E w \in 1..Len(workers) : WSetup(w)
    \/ \E w \in 1..Len(workers) : WPull(w)
    \/ \E w \in 1..Len(workers) : WOpen(w)
    \/ \E w \in 1..Len(workers) : WDeviceError(w)
    \/ \E w \in 1..Len(workers) : WMessage(w)
    \/ \E w \in 1..Len(workers) : WDecode(w)
    \/ \E w \in 1..Len(workers) : WExit(w)

SpecSeek == InitRewind /\ [][NextSeek]_vars

\* C34 as stated: every Seek(d) a worker takes satisfies d <= the duration of
\* the track it is decoding at that moment.
C34_Original ==
    [][\A w \in 1..Len(workers) :
          Receives(w, "Seek") => Head(chan[w]).d <= Duration(workers[w].song)]_vars

\* ------------------------------------------------------------------ the audio stream and the volume
\* What the steps of the stream and of the volume leave alone.
cvars == <<queue, panicked, last, prev, run, state, sender, time_playing, workers, chan, call,
           caller, rewound, updates, listening>>

\* A player whose stream has been built on a device of either rate, with any
\* initial volume.
InitSink ==
    /\ queue = [Queue_new("Off") EXCEPT !.items = Playlist]
    /\ panicked = FALSE
    /\ last = NoCall
    /\ prev = NoCall
    /\ run = NoRun
    /\ state = "NotStarted"
    /\ sender = 0
    /\ time_playing = 0
    /\ workers = <<>>
    /\ chan = <<>>
    /\ call = NoPlayerCall
    /\ caller = "idle"
    /\ rewound = NoRewind
    /\ updates = <<>>
    /\ listening = FALSE
    /\ \E r \in Rates : audio = NewStream(r)
    /\ \E p \in PercentInputs : volume = NewVolume(p)

\* The decoder thread pushes frames into the ring buffer while it is not full.
Produce ==
    /\ audio.consumer < MaxRing
    /\ \E k \in 1..(MaxRing - audio.consumer) :
          audio' = [audio EXCEPT !.consumer = @ + k]
    /\ UNCHANGED <<cvars, volume>>

\* The decoder thread, starting a song whose sample rate differs from the
\* last one, writes the rate to the triple buffer.
RateWrite ==
    /\ \E r \in Rates \ {audio.written} :
          audio' = [audio EXCEPT !.written = r, !.fresh = TRUE]
    /\ UNCHANGED <<cvars, volume>>

\* The device calls the callback for `data` of 2 * f samples; when
\* sample_rate_update.update() reports a new rate the resampler is rebuilt.
CallbackStart ==
    /\ audio.pc = "idle"
    /\ \E f \in 1..MaxFrames :
          audio' = [audio EXCEPT
                      !.pc = "test", !.data = 2 * f, !.equilibrium = 0,
                      !.fresh = FALSE,
                      !.rate_in = IF audio.fresh THEN audio.written ELSE @,
                      !.bypass_resampler =
                          IF audio.fresh THEN audio.written = audio.rate_out ELSE @]
    /\ UNCHANGED <<cvars, volume>>

\* `while sample_deque.len() < data.len()`: into the body, or on to write_audio.
CallbackTest ==
    /\ audio.pc = "test"
    /\ audio' = IF audio.sample_deque < audio.data
                THEN [audio EXCEPT !.pc = "body"]
                ELSE [audio EXCEPT !.pc = "write", !.left = audio.data]
    /\ UNCHANGED <<cvars, volume>>

\* The frames one pass of the loop body adds to sample_deque and leaves in
\* samples_in, given the frames it pops: all of samples_in when bypassing;
\* one resampled chunk, its input padded with zeroes, otherwise.
Refill(a, popped) ==
    IF a.bypass_resampler
    THEN [output |-> a.samples_in + popped, rest |-> 0]
    ELSE [output |-> ResampleOut(a.rate_in), rest |-> 0]

\* The loop body: pop up to samples_needed frames from the ring buffer, turn
\* samples_in into output frames, push two samples a frame to sample_deque.
CallbackBody ==
    /\ audio.pc = "body"
    /\ LET samples_needed == IF audio.bypass_resampler THEN audio.data
                             ELSE ChunkSize - audio.samples_in
           popped == Min(audio.consumer, samples_needed)
           r == Refill(audio, popped)
       IN  audio' = [audio EXCEPT
                       !.pc = "test",
                       !.consumer = @ - popped,
                       !.samples_in = r.rest,
                       !.sample_deque = @ + 2 * r.output]
    /\ UNCHANGED <<cvars, volume>>

\* write_audio, one chunk of `data` (one sample, the stream being stereo): a
\* sample popped from sample_deque and scaled by volume.multiplier(), or
\* EQUILIBRIUM; after the last chunk the callback returns.
CallbackWrite ==
    /\ audio.pc = "write"
    /\ audio' = [audio EXCEPT
                   !.pc = IF audio.left <= 1 THEN "idle" ELSE @,
                   !.left = IF audio.left <= 1 THEN 0 ELSE @ - 1,
                   !.data = IF audio.left <= 1 THEN 0 ELSE @,
                   !.sample_deque = IF @ > 0 THEN @ - 1 ELSE @,
                   !.equilibrium = IF audio.sample_deque > 0 THEN @ ELSE @ + 1,
                   !.heard = IF audio.sample_deque > 0 THEN volume.cell.multiplier ELSE @]
    /\ UNCHANGED <<cvars, volume>>

\* The steps the audio thread takes inside one call of the callback.
Callback == CallbackTest \/ CallbackBody \/ CallbackWrite

\* Player::set_volume takes &mut self: while it runs nothing else of the
\* caller's can hold the &AtomicVolume that Player::volume returns.
VolumeBorrowed_never == FALSE
VolumeBorrowed == volume.pc # "idle"

\* Player::set_volume(&other), AtomicVolume::set_volume up to its first store:
\* other's percent and multiplier are loaded and the percent is stored.
SetVolumePercent ==
    /\ volume.pc = "idle"
    /\ \E p \in PercentInputs :
          volume' = [volume EXCEPT
                       !.pc = "percent_stored",
                       !.other = from_percent(p),
                       !.was = volume.cell.percent,
                       !.cell.percent = from_percent(p).percent]
    /\ UNCHANGED <<cvars, audio>>

\* AtomicVolume::set_volume, its second store, and the return.
SetVolumeMultiplier ==
    /\ volume.pc = "percent_stored"
    /\ volume' = [volume EXCEPT
                    !.pc = "idle",
                    !.was = volume.cell.percent,
                    !.cell.multiplier = volume.other.multiplier]
    /\ UNCHANGED <<cvars, audio>>

\* The caller reads player.volume().percent() and .multiplier().
VolumeRead ==
    /\ ~VolumeBorrowed
    /\ volume' = [volume EXCEPT !.seen = volume.cell]
    /\ UNCHANGED <<cvars, audio>>

NextSink ==
    \/ Produce
    \/ RateWrite
    \/ CallbackStart
    \/ CallbackTest
    \/ CallbackBody
    \/ CallbackWrite
    \/ SetVolumePercent
    \/ SetVolumeMultiplier
    \/ VolumeRead

\* The device's audio thread runs the callback it has called; nothing makes
\* the decoder push or the device call.
SpecSink == InitSink /\ [][NextSink]_vars /\ WF_vars(Callback)

\* C31 as stated: every call of the audio callback returns by its own steps,
\* whether or not the decoder pushes anything, when resampling and when
\* bypassing the resampler.
C31_Original == (audio.pc # "idle") ~> (audio.pc = "idle")

\* In this step write_audio loads volume.multiplier() for a sample.
LoadsMultiplier ==
    /\ audio.pc = "write"
    /\ audio.sample_deque > 0
    /\ audio'.sample_deque = audio.sample_deque - 1

====
